---- MODULE Spec2Model ----
(***************************************************************************)
(* StagePOV audio engine (src/unnamed/part_006, class AudioEngine) and the *)
(* part of the App that drives it (src/unnamed/part_002).                  *)
(*                                                                         *)
(* Numbers are fixed point, so that the code's fractions stay integers:    *)
(*   filter gains                       tenths of a dB   (4 dB    -> 40)   *)
(*   limiter threshold                  hundredths of dB (-0.5 dB -> -50)  *)
(*   volume, reverbLevel, drc, dryGain  hundredths       (1.2     -> 120)  *)
(*   heightLevel                        tenths           (0.5     -> 5)    *)
(*   speakerDelay, phaseAlignment       tenths of a ms;  delayTime in the  *)
(*                                      same unit (the code's /1000 turns  *)
(*                                      ms into s, a change of unit only)  *)
(*   impulse response                   <<duration, decay>> in tenths      *)
(*   spatial position                   tenths                             *)
(* vocalClarity, lfeCrossover (Hz) and bass/treble inputs are passed in    *)
(* the unit of the value they end up in.                                   *)
(***************************************************************************)
EXTENDS Integers, Sequences, FiniteSets, TLC

\* ------------------------------------------------------------------ bounds
MaxCtx == 3        \* realtime contexts init() may create in one run
MaxElem == 2       \* media elements the App hands to init()
MaxInit == 2       \* init() calls that may be in flight at once
MaxRender == 2     \* renderOffline() calls that may be in flight at once
MaxFrames == 2     \* frames of an AudioBuffer whose samples are spelled out
MaxItems == 3      \* media items in the vault

Ctx == 1..MaxCtx
Elem == 1..MaxElem
InitProc == 1..MaxInit
Render == 1..MaxRender
Item == 1..MaxItems

\* ------------------------------------------------------------------- state
VARIABLES
    closeSemantics, \* the platform: when AudioContext.state turns 'closed'
    ctxState,       \* every realtime context init() created: its state
    context,        \* this.context   (0 = null, else a context id)
    source,         \* this.source    (0 = null, else the context it is on)
    nodes,          \* the node handle fields (this.gainNode, this.bassFilter, ...)
    elemBound,      \* per media element: the context it is bound to (0 = none,
                    \* -1 = a context that is not the engine's)
    initPc,         \* per init() call: where it is suspended
    initCtx,        \* per init() call: the context whose close() it awaits
    initElem,       \* per init() call: its element argument
    renderPc,       \* per renderOffline() call: where it is suspended
    renderArg,      \* per renderOffline() call: its settings argument (the
                    \* App's initial settings while no call is in flight)
    renderTemp,     \* per renderOffline() call: its local tempCtx
    renderBuf,      \* per renderOffline() call: its local audioBuffer
    wav,            \* the Blob the last completed renderOffline() or
                    \* audioBufferToWav() returned
    wavInput,       \* history: the buffer and bit depth wav was encoded from
    lastCall,       \* history: the last call made on the engine or handler
                    \* run in the App, what it returned or delivered, and
                    \* whether it threw
    isReady,        \* App state isReady: the player is mounted
    appSettings,    \* App state settings: its bitDepth and sampleRate
    initArgs,       \* history: <<sampleRate, bitDepth>> of the App's last
                    \* audioEngine.init call (<<0, 0>> = none yet)
    mediaData,      \* App state mediaData: the id of the vault item loaded
                    \* (0 = null, -1 = a file that is not from the vault)
    playbackQueue,  \* App state playbackQueue: ids of the pending items
    isPlaying,      \* App state isPlaying
    played,         \* history: the items loaded since the last click on a
                    \* vault item, in order
    started         \* history: the list and the position of that click

appVars == <<isReady, appSettings, initArgs, mediaData, playbackQueue,
             isPlaying, played, started>>

vars == <<closeSemantics, ctxState, context, source, nodes, elemBound,
          initPc, initCtx, initElem,
          renderPc, renderArg, renderTemp, renderBuf, wav, wavInput,
          lastCall, appVars>>

initVars == <<initPc, initCtx, initElem>>
wavVars == <<wav, wavInput>>
renderVars == <<renderPc, renderArg, renderTemp, renderBuf, wavVars>>
ctxVars == <<ctxState, context, source, elemBound>>

\* The node handle fields are assigned together, by setupGraph only, so they
\* are all null or all nodes of one graph; a graph no handle points to any
\* more cannot be reached through the engine.
NullNodes == [kind |-> "null"]

\* A call on the engine: its name, its numeric arguments, its string argument
\* (a preset name) or, for an asynchronous call, what its promise delivered
\* ("pending", "resolved", "rejected"), and whether it threw.
Call(op, a, b, c, name, threw) ==
    [op |-> op, a |-> a, b |-> b, c |-> c, name |-> name, threw |-> threw]

NoCall == Call("none", 0, 0, 0, "", FALSE)

Bool01(x) == IF x THEN 1 ELSE 0

\* ------------------------------------------------------- graph construction
\* Lines 58-133: what setupGraph configures on the nodes it creates besides
\* the parameters the setters move. Frequencies in Hz, Q and rolloffFactor in
\* tenths, compressor attack and release and the maximal delay in ms.
staticConfig ==
    [compressor |-> [knee |-> 0, ratio |-> 20, attack |-> 1, release |-> 100],
     delayNode |-> [maxDelayTime |-> 1000],
     midFilter |-> [type |-> "peaking", frequency |-> 3200, Q |-> 8],
     bassFilter |-> [type |-> "lowshelf", frequency |-> 120],
     trebleFilter |-> [type |-> "highshelf", frequency |-> 10000],
     xCurveFilter |-> [type |-> "highshelf", frequency |-> 8000],
     heightFilter |-> [type |-> "peaking", frequency |-> 12000],
     lfeCrossover |-> [type |-> "lowshelf", gain |-> 0],
     hdLowFilter |-> [type |-> "lowshelf", frequency |-> 60],
     hdMidDip |-> [type |-> "peaking", frequency |-> 500, Q |-> 10],
     hdHighFilter |-> [type |-> "highshelf", frequency |-> 12000],
     panner |-> [panningModel |-> "HRTF", distanceModel |-> "inverse",
                 refDistance |-> 3, maxDistance |-> 10000, rolloffFactor |-> 5]]

\* The realtime branch of line 160 laid out for an offline context too.
connectionsAnalyserAlways(kind) ==
    {<<"source", "midFilter">>, <<"midFilter", "bassFilter">>,
     <<"bassFilter", "trebleFilter">>, <<"trebleFilter", "xCurveFilter">>,
     <<"xCurveFilter", "heightFilter">>, <<"heightFilter", "lfeCrossover">>,
     <<"lfeCrossover", "hdLowFilter">>, <<"hdLowFilter", "hdMidDip">>,
     <<"hdMidDip", "hdHighFilter">>,
     <<"hdHighFilter", "dryGain">>, <<"hdHighFilter", "reverbNode">>,
     <<"reverbNode", "wetGain">>,
     <<"dryGain", "delayNode">>, <<"wetGain", "delayNode">>,
     <<"delayNode", "panner">>, <<"panner", "gainNode">>,
     <<"gainNode", "compressor">>,
     <<"compressor", "analyser">>, <<"analyser", "destination">>}

\* The master bus with the volume stage after the limiter.
connectionsGainLast(kind) ==
    {<<"source", "midFilter">>, <<"midFilter", "bassFilter">>,
     <<"bassFilter", "trebleFilter">>, <<"trebleFilter", "xCurveFilter">>,
     <<"xCurveFilter", "heightFilter">>, <<"heightFilter", "lfeCrossover">>,
     <<"lfeCrossover", "hdLowFilter">>, <<"hdLowFilter", "hdMidDip">>,
     <<"hdMidDip", "hdHighFilter">>,
     <<"hdHighFilter", "dryGain">>, <<"hdHighFilter", "reverbNode">>,
     <<"reverbNode", "wetGain">>,
     <<"dryGain", "delayNode">>, <<"wetGain", "delayNode">>,
     <<"delayNode", "panner">>, <<"panner", "compressor">>,
     <<"compressor", "gainNode">>}
    \cup (IF kind = "live"
          THEN {<<"gainNode", "analyser">>, <<"analyser", "destination">>}
          ELSE {<<"gainNode", "destination">>})

\* Lines 135-165: the connect() calls, as directed edges between the handles
\* (a.connect(b) returns b, so a chain of connects is a path).
connections(kind) ==
    {<<"source", "midFilter">>, <<"midFilter", "bassFilter">>,
     <<"bassFilter", "trebleFilter">>, <<"trebleFilter", "xCurveFilter">>,
     <<"xCurveFilter", "heightFilter">>, <<"heightFilter", "lfeCrossover">>,
     <<"lfeCrossover", "hdLowFilter">>, <<"hdLowFilter", "hdMidDip">>,
     <<"hdMidDip", "hdHighFilter">>,
     <<"hdHighFilter", "dryGain">>, <<"hdHighFilter", "reverbNode">>,
     <<"reverbNode", "wetGain">>,
     <<"dryGain", "delayNode">>, <<"wetGain", "delayNode">>,
     <<"delayNode", "panner">>, <<"panner", "gainNode">>,
     <<"gainNode", "compressor">>}
    \cup (IF kind = "live"
          THEN {<<"compressor", "analyser">>, <<"analyser", "destination">>}
          ELSE {<<"compressor", "destination">>})

\* A graph whose bass, vocal and cinema filters and reverb send keep the
\* values the handles had before.
setupGraphKeepingValues(kind, id) ==
    LET old == IF nodes.kind = "null"
               THEN [mid |-> 0, bass |-> 0, xCurve |-> 0, wet |-> 0]
               ELSE nodes
    IN [kind |-> kind, id |-> id,
        config |-> staticConfig, edges |-> connections(kind),
        fftSize |-> 2048, analyserConnected |-> (kind = "live"),
        volume |-> 100,
        threshold |-> -50,
        delay |-> 0,
        mid |-> old.mid, bass |-> old.bass, treble |-> 0,
        xCurve |-> old.xCurve, height |-> 0,
        lfeFreq |-> 80,
        hdLow |-> 0, hdMid |-> 0, hdHigh |-> 0,
        ir |-> <<12, 30>>,
        dry |-> 120, wet |-> old.wet,
        posX |-> 0, posY |-> 0, posZ |-> 0]

\* setupGraph: every handle is overwritten with a fresh node of ctx. A
\* BiquadFilterNode's gain and a PannerNode's position default to 0 where the
\* code sets nothing. The analyser is created in both cases and connected on
\* a realtime context only.
setupGraph(kind, id) ==
    [kind |-> kind, id |-> id,
     config |-> staticConfig, edges |-> connections(kind),
     fftSize |-> 2048, analyserConnected |-> (kind = "live"),
     volume |-> 100,
     threshold |-> -50,
     delay |-> 0,
     mid |-> 0, bass |-> 0, treble |-> 0, xCurve |-> 0, height |-> 0,
     lfeFreq |-> 80,
     hdLow |-> 0, hdMid |-> 0, hdHigh |-> 0,
     ir |-> <<12, 30>>,
     dry |-> 120, wet |-> 0,
     posX |-> 0, posY |-> 0, posZ |-> 0]

\* `this.x && this.context` / `if (!this.context) return` + `this.x?.`: with
\* the handles assigned together, both guards are this one.
Guarded(n, c) == n.kind # "null" /\ c # 0

\* ------------------------------------------------------------------ setters
\* Each returns the handles after the call; setTargetAtTime is modelled by
\* its target (last write wins).
setVolume(n, c, value) ==
    IF Guarded(n, c) THEN [n EXCEPT !.volume = value] ELSE n

setBass(n, c, value) ==
    IF Guarded(n, c) THEN [n EXCEPT !.bass = value] ELSE n

setTreble(n, c, value) ==
    IF Guarded(n, c) THEN [n EXCEPT !.treble = value] ELSE n

\* gain = (value - 5) * 2 dB
setVocalClarity(n, c, value) ==
    IF Guarded(n, c) THEN [n EXCEPT !.mid = (value - 5) * 20] ELSE n

setReverb(n, c, value) ==
    IF Guarded(n, c) THEN [n EXCEPT !.wet = value] ELSE n

\* threshold = -0.5 - value * 12 dB
setDRC(n, c, value) ==
    IF Guarded(n, c) THEN [n EXCEPT !.threshold = -50 - value * 12] ELSE n

setHdMode(n, c, enabled) ==
    IF ~Guarded(n, c) THEN n
    ELSE IF enabled
         THEN [n EXCEPT !.hdLow = 40, !.hdMid = -30, !.hdHigh = 60]
         ELSE [n EXCEPT !.hdLow = 0, !.hdMid = 0, !.hdHigh = 0]

setTheaterModeRestoring(n, c, enabled) ==
    IF ~Guarded(n, c) THEN n
    ELSE IF enabled
         THEN [n EXCEPT !.xCurve = -15, !.bass = 40, !.mid = 30]
         ELSE [n EXCEPT !.xCurve = 0]

setTheaterMode(n, c, enabled) ==
    IF ~Guarded(n, c) THEN n
    ELSE IF enabled
         THEN [n EXCEPT !.xCurve = -15, !.bass = 40, !.mid = 30]
         ELSE [n EXCEPT !.xCurve = 0, !.bass = 0, !.mid = 0]

\* `this.reverbNode!.buffer = ...` is a plain property write: with a context
\* and no reverbNode it throws a TypeError.
applyPresetThrows(n, c, name) ==
    /\ c # 0
    /\ n.kind = "null"
    /\ name \in {"IMAX Enhanced", "Concert Auditorium"}

applyPresetLayering(n, c, name) ==
    IF ~Guarded(n, c) THEN n
    ELSE CASE name = "IMAX Enhanced" ->
                [n EXCEPT !.bass = @ + 80, !.mid = @ + 30, !.treble = @ + 20,
                          !.ir = <<25, 15>>]
           [] name = "THX Reference" -> [n EXCEPT !.mid = @ + 10]
           [] name = "Concert Auditorium" ->
                [n EXCEPT !.treble = @ + 10, !.ir = <<35, 20>>]
           [] name = "Vintage Cinema" -> [n EXCEPT !.mid = @ + 50, !.xCurve = -40]
           [] OTHER -> n

applyPreset(n, c, name) ==
    IF ~Guarded(n, c) THEN n
    ELSE LET r == [n EXCEPT !.bass = 0, !.treble = 0, !.mid = 0]
         IN CASE name = "IMAX Enhanced" ->
                   [r EXCEPT !.bass = 80, !.mid = 30, !.treble = 20,
                             !.ir = <<25, 15>>]
              [] name = "THX Reference" -> [r EXCEPT !.mid = 10]
              [] name = "Concert Auditorium" ->
                   [r EXCEPT !.treble = 10, !.ir = <<35, 20>>]
              [] name = "Vintage Cinema" -> [r EXCEPT !.mid = 50, !.xCurve = -40]
              [] OTHER -> r

\* gain = value * 6 dB
setHeightLevel(n, c, value) ==
    IF Guarded(n, c) THEN [n EXCEPT !.height = value * 6] ELSE n

setLfeCrossover(n, c, hz) ==
    IF Guarded(n, c) THEN [n EXCEPT !.lfeFreq = hz] ELSE n

setSpeakerCalibration(n, c, delayMs, phaseMs) ==
    IF Guarded(n, c) THEN [n EXCEPT !.delay = delayMs + phaseMs] ELSE n

setSpatialPosition(n, c, x, y, z) ==
    IF Guarded(n, c)
    THEN [n EXCEPT !.posX = x * 5, !.posY = y * 5, !.posZ = z * 5]
    ELSE n

\* getAnalyserData(): a Uint8Array(0) while the analyser handle is null,
\* otherwise a Uint8Array of frequencyBinCount = fftSize / 2 elements filled
\* by getByteFrequencyData. The elements of a Uint8Array are in 0..255.
getAnalyserData(n) ==
    [length |-> IF n.kind = "null" THEN 0 ELSE n.fftSize \div 2,
     elements |-> 0..255]

isActive(c) == c # 0

\* --------------------------------------------------------------------- init
Unused == {c \in Ctx : ctxState[c] = "none"}

NewCtx == CHOOSE c \in Unused : \A d \in Unused : c <= d

\* What `this.context.state !== 'closed'` reads. close() marks the context
\* closed on the control thread at once; the state attribute follows at once
\* ("immediate") or only when the close promise is about to resolve
\* ("deferred"), depending on the platform.
StateAttr(c) == IF ctxState[c] = "closing" THEN "running" ELSE ctxState[c]

\* Lines 41-53, run without suspension: a new context replaces this.context,
\* createMediaElementSource throws when the element is already bound to a
\* source node, the throw is caught and init returns normally; else the graph
\* is built. cs is the context state to build on (after the close, if any).
InitBuild(p, e, cs) ==
    LET c == NewCtx
        conflict == elemBound[e] # 0
    IN /\ ctxState' = [cs EXCEPT ![c] = "running"]
       /\ context' = c
       /\ IF conflict
          THEN /\ source' = 0
               /\ UNCHANGED <<nodes, elemBound>>
          ELSE /\ source' = c
               /\ elemBound' = [elemBound EXCEPT ![e] = c]
               /\ nodes' = setupGraph("live", c)
       /\ initPc' = [initPc EXCEPT ![p] = "idle"]
       /\ initElem' = [initElem EXCEPT ![p] = 0]
       /\ initCtx' = [initCtx EXCEPT ![p] = 0]
       /\ lastCall' = Call("init", e, c, Bool01(conflict), "resolved", FALSE)

\* init(element) up to its first suspension (lines 29-37), or to its end when
\* it does not suspend. A call takes the first free slot p: the slots only
\* name the calls in flight.
InitCall(p, e) ==
    /\ initPc[p] = "idle"
    /\ \A q \in InitProc : initPc[q] = "idle" => p <= q
    /\ Cardinality(Unused) > Cardinality({q \in InitProc : initPc[q] # "idle"})
    /\ UNCHANGED <<closeSemantics, appVars, renderVars>>
    /\ IF context = 0
       THEN InitBuild(p, e, ctxState)
       ELSE IF StateAttr(context) = "closed"
       THEN \* no close(): `this.context = null` and straight on
            InitBuild(p, e, ctxState)
       ELSE IF ctxState[context] = "closing"
       THEN \* close() on a context already being closed: the promise is
            \* rejected (InvalidStateError) and the await throws
            /\ source' = 0
            /\ lastCall' = Call("init", e, 0, 0, "rejected", TRUE)
            /\ UNCHANGED <<ctxState, context, nodes, elemBound,
                           initPc, initCtx, initElem>>
       ELSE \* source disconnected and nulled, close() called and awaited
            /\ source' = 0
            /\ ctxState' = [ctxState EXCEPT ![context] =
                               IF closeSemantics = "immediate"
                               THEN "closed" ELSE "closing"]
            /\ initPc' = [initPc EXCEPT ![p] = "awaitClose"]
            /\ initCtx' = [initCtx EXCEPT ![p] = context]
            /\ initElem' = [initElem EXCEPT ![p] = e]
            /\ lastCall' = Call("init", e, 0, 0, "pending", FALSE)
            /\ UNCHANGED <<context, nodes, elemBound>>

\* The close promise resolves and init continues after its await (lines
\* 38-53): it nulls this.context, whatever it holds by now.
InitResume(p) ==
    /\ initPc[p] = "awaitClose"
    /\ UNCHANGED <<closeSemantics, appVars, renderVars>>
    /\ InitBuild(p, initElem[p], [ctxState EXCEPT ![initCtx[p]] = "closed"])

\* --------------------------------------------------------------- WAV encoder
\* Byte counts can pass 2^31: a size is kept as <<hi, lo>>, standing for
\* hi * 65536 + lo with lo in 0..65535.
Num(n) == <<n \div 65536, n % 65536>>

NumTimes(x, k) ==
    <<x[1] * k + (x[2] * k) \div 65536, (x[2] * k) % 65536>>

NumPlus(x, k) ==
    <<x[1] + (x[2] + k) \div 65536, (x[2] + k) % 65536>>

NumLess(x, y) == x[1] < y[1] \/ (x[1] = y[1] /\ x[2] < y[2])

\* DataView.setUint32 and setUint16 store their argument modulo 2^32, 2^16.
Uint32(x) == <<x[1] % 65536, x[2]>>

Uint16(n) == n % 65536

\* A sample of a Float32Array read as a number: k/8 (kind "num", num = k),
\* NaN, +Infinity or -Infinity.
SampleOf(k) == [kind |-> "num", num |-> k]

NaNSample == [kind |-> "nan", num |-> 0]

\* Math.max(-1, Math.min(1, x)): NaN stays NaN.
clampSample(x) ==
    CASE x.kind = "nan" -> NaNSample
      [] x.kind = "inf" -> SampleOf(8)
      [] x.kind = "ninf" -> SampleOf(-8)
      [] OTHER -> SampleOf(IF x.num > 8 THEN 8 ELSE IF x.num < -8 THEN -8
                           ELSE x.num)

\* `| 0` on n/d: ToInt32 drops the fraction (towards zero); the products of
\* the encoder are below 2^31.
TruncDiv(n, d) == IF n >= 0 THEN n \div d ELSE -((-n) \div d)

\* One scale for both signs.
scaleSampleOneScale(c, neg, pos) ==
    IF c.kind = "nan" THEN 0 ELSE TruncDiv(c.num * neg, 8)

\* (sample < 0 ? sample * neg : sample * pos) | 0 on a clamped sample; NaN is
\* not < 0, NaN * pos is NaN and NaN | 0 is 0.
scaleSample(c, neg, pos) ==
    IF c.kind = "nan" THEN 0
    ELSE IF c.num < 0 THEN TruncDiv(c.num * neg, 8)
    ELSE TruncDiv(c.num * pos, 8)

\* view.setInt16(pos, v, true): the low 16 bits of v, low byte first.
int16Bytes(v) == <<v % 256, (v % 65536) \div 256>>

\* The three bytes most significant first.
int24BytesBigEndian(v) == <<(v \div 65536) % 256, (v \div 256) % 256, v % 256>>

\* The 24-bit branch: v & 0xFF, (v >> 8) & 0xFF, (v >> 16) & 0xFF.
int24Bytes(v) == <<v % 256, (v \div 256) % 256, (v \div 65536) % 256>>

\* view.setFloat32(pos, x, true) for x = k/8 in [-1, 1]: IEEE-754 binary32,
\* low byte first. k/8 = 2^(p-3) * (1 + (k - 2^p)/2^p) with 2^p <= |k|.
float32Bytes(c) ==
    IF c.kind = "nan" THEN <<0, 0, 192, 127>>
    ELSE IF c.num = 0 THEN <<0, 0, 0, 0>>
    ELSE LET k == IF c.num < 0 THEN -c.num ELSE c.num
             sign == IF c.num < 0 THEN 1 ELSE 0
             p == IF k >= 8 THEN 3 ELSE IF k >= 4 THEN 2
                  ELSE IF k >= 2 THEN 1 ELSE 0
             biased == p - 3 + 127
             mant == (k - 2^p) * 2^(23 - p)
         IN <<mant % 256, (mant \div 256) % 256,
              (biased % 2) * 128 + mant \div 65536,
              sign * 128 + biased \div 2>>

\* Lines 289-307: the bytes written for one sample at the given depth.
sampleBytes(x, bitDepth) ==
    LET c == clampSample(x)
    IN IF bitDepth = 16 THEN int16Bytes(scaleSample(c, 32768, 32767))
       ELSE IF bitDepth = 32 THEN float32Bytes(c)
       ELSE int24Bytes(scaleSample(c, 8388608, 8388607))

\* An AudioBuffer: length in frames, sampleRate, numberOfChannels and, in
\* data, the samples of its first frames (all of them when length <=
\* MaxFrames): data[offset + 1][i + 1] is getChannelData(i)[offset].
AudioBuffer(length, sampleRate, numberOfChannels, data) ==
    [length |-> length, sampleRate |-> sampleRate,
     numberOfChannels |-> numberOfChannels, data |-> data]

NoBuffer == AudioBuffer(0, 0, 0, <<>>)

\* Lines 287-310 over the frames spelled out: frame by frame, channel by
\* channel within a frame.
RECURSIVE frameBytes(_, _, _)
frameBytes(frame, bitDepth, i) ==
    IF i > Len(frame) THEN <<>>
    ELSE sampleBytes(frame[i], bitDepth) \o frameBytes(frame, bitDepth, i + 1)

RECURSIVE interleave(_, _, _)
interleave(data, bitDepth, offset) ==
    IF offset > Len(data) THEN <<>>
    ELSE frameBytes(data[offset], bitDepth, 1)
           \o interleave(data, bitDepth, offset + 1)

\* Line 245-246: the byte length of the data and of the whole file.
wavDataLength(buffer, bitDepth) ==
    NumTimes(Num(buffer.length), buffer.numberOfChannels * (bitDepth \div 8))

wavBufferLength(buffer, bitDepth) == NumPlus(wavDataLength(buffer, bitDepth), 44)

\* The state of the sample loop: the write position, the frame index, one
\* past the last byte written so far (44 after the header), whether the loop
\* condition has turned false, and whether a frame index >= buffer.length was
\* read.
LoopState(pos, offset, writeEnd, exited, overrun) ==
    [pos |-> pos, offset |-> offset, writeEnd |-> writeEnd,
     exited |-> exited, overrun |-> overrun]

\* The sample loop running while pos <= bufferLength.
RECURSIVE sampleLoopInclusive(_, _, _, _, _)
sampleLoopInclusive(buffer, bitDepth, pos, offset, writeEnd) ==
    LET next == NumPlus(pos, buffer.numberOfChannels * (bitDepth \div 8))
    IN IF NumLess(wavBufferLength(buffer, bitDepth), pos)
         THEN LoopState(pos, offset, writeEnd, TRUE, FALSE)
       ELSE IF offset >= buffer.length
         THEN LoopState(pos, offset, writeEnd, FALSE, TRUE)
       ELSE IF offset >= Len(buffer.data)
         THEN LoopState(pos, offset, writeEnd, FALSE, FALSE)
       ELSE sampleLoopInclusive(buffer, bitDepth, next, offset + 1, next)

\* Lines 287-310: `while(pos < bufferLength)`, one frame per iteration, each
\* of its numOfChan samples read at channels[i][offset] and written at pos,
\* which advances by bitDepth / 8; then offset++. The loop is followed frame
\* by frame over the frames spelled out in buffer.data and stops there for a
\* buffer with more frames than that. An iteration entered with offset >=
\* buffer.length reads past the end of the channel data (overrun).
RECURSIVE sampleLoop(_, _, _, _, _)
sampleLoop(buffer, bitDepth, pos, offset, writeEnd) ==
    LET next == NumPlus(pos, buffer.numberOfChannels * (bitDepth \div 8))
    IN IF ~NumLess(pos, wavBufferLength(buffer, bitDepth))
         THEN LoopState(pos, offset, writeEnd, TRUE, FALSE)
       ELSE IF offset >= buffer.length
         THEN LoopState(pos, offset, writeEnd, FALSE, TRUE)
       ELSE IF offset >= Len(buffer.data)
         THEN LoopState(pos, offset, writeEnd, FALSE, FALSE)
       ELSE sampleLoop(buffer, bitDepth, next, offset + 1, next)

\* audioBufferToWav(buffer, bitDepth): the header fields in file order, the
\* length of the ArrayBuffer and the data bytes of the frames spelled out.
\* bitDepth / 8 is exact for the depths 16, 24 and 32.
audioBufferToWav(buffer, bitDepth) ==
    LET numOfChan == buffer.numberOfChannels
        bytes == bitDepth \div 8
    IN [byteLength |-> wavBufferLength(buffer, bitDepth),
        riff |-> "RIFF",
        riffSize |-> Uint32(NumPlus(wavBufferLength(buffer, bitDepth), -8)),
        wave |-> "WAVE",
        fmt |-> "fmt ",
        fmtLength |-> Uint32(Num(16)),
        format |-> Uint16(1),
        numChannels |-> Uint16(numOfChan),
        sampleRate |-> Uint32(Num(buffer.sampleRate)),
        byteRate |-> Uint32(Num(buffer.sampleRate * numOfChan * bytes)),
        blockAlign |-> Uint16(numOfChan * bytes),
        bitsPerSample |-> Uint16(bitDepth),
        dataTag |-> "data",
        dataLength |-> Uint32(wavDataLength(buffer, bitDepth)),
        data |-> interleave(buffer.data, bitDepth, 1),
        loop |-> sampleLoop(buffer, bitDepth, Num(44), 0, Num(44))]

\* No Blob returned yet.
NoWav ==
    [byteLength |-> Num(0), riff |-> "", riffSize |-> Num(0), wave |-> "",
     fmt |-> "", fmtLength |-> Num(0), format |-> 0, numChannels |-> 0,
     sampleRate |-> Num(0), byteRate |-> Num(0), blockAlign |-> 0,
     bitsPerSample |-> 0, dataTag |-> "", dataLength |-> Num(0), data |-> <<>>,
     loop |-> LoopState(Num(0), 0, Num(0), FALSE, FALSE)]

\* `new ArrayBuffer(bufferLength)` throws a RangeError above the platform's
\* limit, which is 2^31 - 1 bytes or more: below that the allocation
\* succeeds, above it either may happen.
ArrayBufferMayThrow(bufferLength) == ~NumLess(bufferLength, <<32768, 0>>)

\* ----------------------------------------------------------- renderOffline
\* The App's initial settings (src/unnamed/part_002, lines 183-200).
DefaultSettings ==
    [volume |-> 180, bass |-> 0, treble |-> 20, vocalClarity |-> 5,
     reverbLevel |-> 0, heightLevel |-> 5, drc |-> 10, lfeCrossover |-> 80,
     speakerDelay |-> 0, phaseAlignment |-> 0,
     isTheaterMode |-> FALSE, isHdAudioEnabled |-> FALSE,
     selectedPreset |-> "Pure Direct", bitDepth |-> 16, sampleRate |-> 48000]

\* Lines 187-229: setupGraph on the offline context overwrites the handles,
\* then the settings are written to the nodes as fixed values.
renderOfflineGraph(r, s) ==
    LET g == setupGraph("offline", r)
        eq == [g EXCEPT !.bass = s.bass, !.treble = s.treble,
                        !.mid = (s.vocalClarity - 5) * 20,
                        !.height = s.heightLevel * 6]
        th == IF s.isTheaterMode
              THEN [eq EXCEPT !.xCurve = -15, !.bass = s.bass + 40,
                              !.mid = (s.vocalClarity - 5) * 20 + 30]
              ELSE eq
        hd == IF s.isHdAudioEnabled
              THEN [th EXCEPT !.hdLow = 40, !.hdMid = -30, !.hdHigh = 60]
              ELSE th
        rv == [hd EXCEPT !.wet = s.reverbLevel]
        im == IF s.selectedPreset = "IMAX Enhanced"
              THEN [rv EXCEPT !.ir = <<25, 15>>] ELSE rv
    IN [im EXCEPT !.volume = s.volume, !.threshold = -50 - s.drc * 12]

\* renderOffline(fileBlob, settings) up to `await fileBlob.arrayBuffer()`.
RenderCall(r, s) ==
    /\ renderPc[r] = "idle"
    /\ \A q \in Render : renderPc[q] = "idle" => r <= q
    /\ renderPc' = [renderPc EXCEPT ![r] = "awaitBytes"]
    /\ renderArg' = [renderArg EXCEPT ![r] = s]
    /\ renderTemp' = [renderTemp EXCEPT ![r] = "none"]
    /\ lastCall' = Call("renderOffline", r, 0, 0, "pending", FALSE)
    /\ UNCHANGED <<closeSemantics, appVars, ctxVars, nodes, initVars, renderBuf, wavVars>>

\* The bytes arrive: tempCtx is created and decodeAudioData is awaited.
RenderBytes(r) ==
    /\ renderPc[r] = "awaitBytes"
    /\ renderPc' = [renderPc EXCEPT ![r] = "awaitDecode"]
    /\ renderTemp' = [renderTemp EXCEPT ![r] = "open"]
    /\ lastCall' = Call("renderOffline", r, 1, 0, "pending", FALSE)
    /\ UNCHANGED <<closeSemantics, appVars, ctxVars, nodes, initVars, renderArg,
                   renderBuf, wavVars>>

\* An offline context with as many channels as the decoded source.
offlineContextSourceChannels(audioBuffer, settings) ==
    [numberOfChannels |-> audioBuffer.numberOfChannels,
     length |-> audioBuffer.length,
     sampleRate |-> settings.sampleRate]

\* Lines 181-185: the OfflineAudioContext renderOffline renders on, which is
\* also the shape of the buffer startRendering delivers.
offlineContext(audioBuffer, settings) ==
    [numberOfChannels |-> 2, length |-> audioBuffer.length,
     sampleRate |-> settings.sampleRate]

\* renderOffline with the offline graph set up before the decoded buffer is
\* looked at.
RenderDecodedGraphFirst(r, decoded) ==
    /\ renderPc[r] = "awaitDecode"
    /\ nodes' = renderOfflineGraph(r, renderArg[r])
    /\ IF decoded # NoBuffer
       THEN /\ renderTemp' = [renderTemp EXCEPT ![r] = "closed"]
            /\ renderBuf' = [renderBuf EXCEPT ![r] = decoded]
            /\ renderPc' = [renderPc EXCEPT ![r] = "awaitRender"]
            /\ lastCall' = Call("renderOffline", r, 2, 0, "pending", FALSE)
            /\ UNCHANGED renderArg
       ELSE /\ renderPc' = [renderPc EXCEPT ![r] = "idle"]
            /\ renderArg' = [renderArg EXCEPT ![r] = DefaultSettings]
            /\ lastCall' = Call("renderOffline", r, 2, 0, "rejected", TRUE)
            /\ UNCHANGED <<renderTemp, renderBuf>>
    /\ UNCHANGED <<closeSemantics, appVars, ctxVars, initVars, wavVars>>

\* decodeAudioData settles. Rejected (decoded = NoBuffer): the await throws,
\* tempCtx.close() on the next line is not reached. Resolved with the decoded
\* buffer: lines 179-231 run to the await of startRendering.
RenderDecoded(r, decoded) ==
    /\ renderPc[r] = "awaitDecode"
    /\ IF decoded # NoBuffer
       THEN /\ renderTemp' = [renderTemp EXCEPT ![r] = "closed"]
            /\ renderBuf' = [renderBuf EXCEPT ![r] = decoded]
            /\ nodes' = renderOfflineGraph(r, renderArg[r])
            /\ renderPc' = [renderPc EXCEPT ![r] = "awaitRender"]
            /\ lastCall' = Call("renderOffline", r, 2, 0, "pending", FALSE)
            /\ UNCHANGED renderArg
       ELSE /\ renderPc' = [renderPc EXCEPT ![r] = "idle"]
            /\ renderArg' = [renderArg EXCEPT ![r] = DefaultSettings]
            /\ lastCall' = Call("renderOffline", r, 2, 0, "rejected", TRUE)
            /\ UNCHANGED <<nodes, renderTemp, renderBuf>>
    /\ UNCHANGED <<closeSemantics, appVars, ctxVars, initVars, wavVars>>

\* startRendering resolves with a buffer of the offline context's shape
\* holding the samples data, which is encoded and returned; the call ends
\* with a RangeError instead when the ArrayBuffer cannot be allocated. The
\* history keeps the channel count of the decoded source.
RenderFinish(r, data, allocated) ==
    LET ctx == offlineContext(renderBuf[r], renderArg[r])
        renderedBuffer == AudioBuffer(ctx.length, ctx.sampleRate,
                                      ctx.numberOfChannels, data)
        bitDepth == renderArg[r].bitDepth
    IN /\ renderPc[r] = "awaitRender"
       /\ Len(data) = (IF ctx.length < MaxFrames THEN ctx.length ELSE MaxFrames)
       /\ allocated \/ ArrayBufferMayThrow(wavBufferLength(renderedBuffer, bitDepth))
       /\ renderPc' = [renderPc EXCEPT ![r] = "idle"]
       /\ renderArg' = [renderArg EXCEPT ![r] = DefaultSettings]
       /\ renderBuf' = [renderBuf EXCEPT ![r] = NoBuffer]
       /\ IF allocated
          THEN /\ wav' = audioBufferToWav(renderedBuffer, bitDepth)
               /\ wavInput' = [buffer |-> renderedBuffer, bitDepth |-> bitDepth]
               /\ lastCall' = Call("renderOffline", r, 3,
                                   renderBuf[r].numberOfChannels, "resolved", FALSE)
          ELSE /\ UNCHANGED wavVars
               /\ lastCall' = Call("renderOffline", r, 3,
                                   renderBuf[r].numberOfChannels, "rejected", TRUE)
       /\ UNCHANGED <<closeSemantics, appVars, ctxVars, nodes, initVars, renderTemp>>

\* audioBufferToWav called on a buffer directly.
CallAudioBufferToWav(buffer, bitDepth, allocated) ==
    /\ allocated \/ ArrayBufferMayThrow(wavBufferLength(buffer, bitDepth))
    /\ IF allocated
       THEN /\ wav' = audioBufferToWav(buffer, bitDepth)
            /\ wavInput' = [buffer |-> buffer, bitDepth |-> bitDepth]
            /\ lastCall' = Call("audioBufferToWav", buffer.length,
                                buffer.numberOfChannels, bitDepth, "", FALSE)
       ELSE /\ UNCHANGED wavVars
            /\ lastCall' = Call("audioBufferToWav", buffer.length,
                                buffer.numberOfChannels, bitDepth, "", TRUE)
    /\ UNCHANGED <<closeSemantics, appVars, ctxVars, nodes, initVars,
                   renderPc, renderArg, renderTemp, renderBuf>>

\* ------------------------------------------------------ calls of the setters
Setter(n, call) ==
    /\ nodes' = n
    /\ lastCall' = call
    /\ UNCHANGED <<closeSemantics, appVars, ctxVars, initVars, renderVars>>

CallSetVolume(v) ==
    Setter(setVolume(nodes, context, v), Call("setVolume", v, 0, 0, "", FALSE))

CallSetBass(v) ==
    Setter(setBass(nodes, context, v), Call("setBass", v, 0, 0, "", FALSE))

CallSetTreble(v) ==
    Setter(setTreble(nodes, context, v), Call("setTreble", v, 0, 0, "", FALSE))

CallSetVocalClarity(v) ==
    Setter(setVocalClarity(nodes, context, v),
           Call("setVocalClarity", v, 0, 0, "", FALSE))

CallSetReverb(v) ==
    Setter(setReverb(nodes, context, v), Call("setReverb", v, 0, 0, "", FALSE))

CallSetDRC(v) ==
    Setter(setDRC(nodes, context, v), Call("setDRC", v, 0, 0, "", FALSE))

CallSetHdMode(b) ==
    Setter(setHdMode(nodes, context, b),
           Call("setHdMode", Bool01(b), 0, 0, "", FALSE))

CallSetTheaterMode(b) ==
    Setter(setTheaterMode(nodes, context, b),
           Call("setTheaterMode", Bool01(b), 0, 0, "", FALSE))

CallApplyPreset(name) ==
    Setter(applyPreset(nodes, context, name),
           Call("applyPreset", 0, 0, 0, name,
                applyPresetThrows(nodes, context, name)))

CallSetHeightLevel(v) ==
    Setter(setHeightLevel(nodes, context, v),
           Call("setHeightLevel", v, 0, 0, "", FALSE))

CallSetLfeCrossover(hz) ==
    Setter(setLfeCrossover(nodes, context, hz),
           Call("setLfeCrossover", hz, 0, 0, "", FALSE))

CallSetSpeakerCalibration(d, ph) ==
    Setter(setSpeakerCalibration(nodes, context, d, ph),
           Call("setSpeakerCalibration", d, ph, 0, "", FALSE))

CallSetSpatialPosition(x, y, z) ==
    Setter(setSpatialPosition(nodes, context, x, y, z),
           Call("setSpatialPosition", x, y, z, "", FALSE))

\* ------------------------------------------------------- App: updateEngine
\* src/unnamed/part_002, lines 325-347: the settings are pushed through the
\* setters in this order; (y, z) is the centroid of the active speakers. A
\* throw of applyPreset ends the push before setSpatialPosition.
updateEngine(n, c, s, y, z) ==
    IF ~isActive(c) THEN n
    ELSE LET n1 == setVolume(n, c, s.volume)
             n2 == setBass(n1, c, s.bass)
             n3 == setTreble(n2, c, s.treble)
             n4 == setVocalClarity(n3, c, s.vocalClarity)
             n5 == setReverb(n4, c, s.reverbLevel)
             n6 == setTheaterMode(n5, c, s.isTheaterMode)
             n7 == setHdMode(n6, c, s.isHdAudioEnabled)
             n8 == setDRC(n7, c, s.drc)
             n9 == setHeightLevel(n8, c, s.heightLevel)
             n10 == setSpeakerCalibration(n9, c, s.speakerDelay, s.phaseAlignment)
             n11 == applyPreset(n10, c, s.selectedPreset)
         IN IF applyPresetThrows(n10, c, s.selectedPreset)
            THEN n11
            ELSE setSpatialPosition(n11, c, 0, y, z)

updateEngineThrows(n, c, s) ==
    isActive(c) /\ applyPresetThrows(n, c, s.selectedPreset)

\* The settings of a push as the history records them: bass, vocalClarity,
\* isTheaterMode and selectedPreset; the other fields are the App's initial
\* ones, but for isHdAudioEnabled, which follows isTheaterMode here.
PushSettings(bass, vocalClarity, theater, preset) ==
    [DefaultSettings EXCEPT !.bass = bass, !.vocalClarity = vocalClarity,
                            !.isTheaterMode = theater,
                            !.isHdAudioEnabled = theater,
                            !.selectedPreset = preset]

CallUpdateEngine(s, y, z) ==
    Setter(updateEngine(nodes, context, s, y, z),
           Call("updateEngine", s.bass, s.vocalClarity, Bool01(s.isTheaterMode),
                s.selectedPreset, updateEngineThrows(nodes, context, s)))

\* ------------------------------------------------------------ specification
\* AUDIO_PRESETS of src/constants.ts (lines 54-62).
\* ------------------------------------------------------------------ the App
\* src/unnamed/part_002, lines 12-17.
BIT_DEPTH_OPTIONS == <<16, 24, 32>>

SAMPLE_RATE_MAP ==
    [bit \in {16, 24, 32} |->
        CASE bit = 16 -> <<44100, 48000>>
          [] bit = 24 -> <<48000, 96000>>
          [] bit = 32 -> <<96000, 192000>>]

Range(f) == {f[k] : k \in DOMAIN f}

\* queue.findIndex(s => s.id === id): the first position, from 0, or -1.
findIndex(queue, id) ==
    IF \E k \in 1..Len(queue) : queue[k] = id
    THEN (CHOOSE k \in 1..Len(queue) :
            queue[k] = id /\ \A j \in 1..(k - 1) : queue[j] # id) - 1
    ELSE -1

\* queue.slice(from) for 0 <= from.
slice(queue, from) == SubSeq(queue, from + 1, Len(queue))

\* playMediaFromVault with the pending queue starting at the item itself.
playMediaFromVaultFromIndex(media, queue) ==
    [mediaData |-> media,
     playbackQueue |->
        IF Len(queue) > 0
        THEN LET index == findIndex(queue, media)
             IN IF index # -1 /\ index < Len(queue) - 1
                THEN slice(queue, index) ELSE <<>>
        ELSE <<>>,
     isPlaying |-> TRUE]

\* playMediaFromVault(media, queue), lines 445-463: the state it sets.
playMediaFromVault(media, queue) ==
    [mediaData |-> media,
     playbackQueue |->
        IF Len(queue) > 0
        THEN LET index == findIndex(queue, media)
             IN IF index # -1 /\ index < Len(queue) - 1
                THEN slice(queue, index + 1) ELSE <<>>
        ELSE <<>>,
     isPlaying |-> TRUE]

NoStart == [queue |-> <<>>, index |-> 0]

AUDIO_PRESETS ==
    {"Pure Direct", "IMAX Enhanced", "THX Reference", "Dolby Atmos Music",
     "Concert Auditorium", "Small Studio", "Vintage Cinema"}

\* Frames of silence on two channels.
SilentFrames(n) == [i \in 1..n |-> <<SampleOf(0), SampleOf(0)>>]

\* A decoded stereo clip of two frames at 48 kHz.
StereoClip == AudioBuffer(2, 48000, 2, SilentFrames(2))

TheaterSettings ==
    [DefaultSettings EXCEPT !.isTheaterMode = TRUE, !.bass = 20,
                            !.selectedPreset = "IMAX Enhanced"]

\* After construction: every field null, nothing in flight. Element 1 is
\* fresh; any other element may already be bound to a context that is not the
\* engine's (-1), the case init's catch block is written for.
Init ==
    /\ closeSemantics \in {"immediate", "deferred"}
    /\ ctxState = [c \in Ctx |-> "none"]
    /\ context = 0
    /\ source = 0
    /\ nodes = NullNodes
    /\ elemBound \in {f \in [Elem -> {0, -1}] : f[1] = 0}
    /\ initPc = [p \in InitProc |-> "idle"]
    /\ initCtx = [p \in InitProc |-> 0]
    /\ initElem = [p \in InitProc |-> 0]
    /\ renderPc = [r \in Render |-> "idle"]
    /\ renderArg = [r \in Render |-> DefaultSettings]
    /\ renderTemp = [r \in Render |-> "none"]
    /\ renderBuf = [r \in Render |-> NoBuffer]
    /\ wav = NoWav
    /\ wavInput = [buffer |-> NoBuffer, bitDepth |-> 0]
    /\ lastCall = NoCall
    /\ isReady = FALSE
    /\ appSettings = [bitDepth |-> 16, sampleRate |-> 48000]
    /\ initArgs = <<0, 0>>
    /\ mediaData = 0
    /\ playbackQueue = <<>>
    /\ isPlaying = FALSE
    /\ played = <<>>
    /\ started = NoStart

\* The engine's interface under every interleaving of init() with the
\* setters. setBass, setTheaterMode and applyPreset are called with arguments
\* that move a target; the other setters are called with the value the graph is
\* built with, which keeps the state space of this specification small (their
\* arithmetic is exercised in SpecParam).
Next ==
    \/ \E p \in InitProc, e \in Elem : InitCall(p, e)
    \/ \E p \in InitProc : InitResume(p)
    \/ CallSetVolume(100)
    \/ CallSetBass(20)
    \/ CallSetTreble(0)
    \/ CallSetVocalClarity(5)
    \/ CallSetReverb(0)
    \/ CallSetDRC(0)
    \/ CallSetHdMode(FALSE)
    \/ \E b \in BOOLEAN : CallSetTheaterMode(b)
    \/ \E name \in {"Pure Direct", "IMAX Enhanced"} : CallApplyPreset(name)
    \/ CallSetHeightLevel(0)
    \/ CallSetLfeCrossover(80)
    \/ CallSetSpeakerCalibration(0, 0)
    \/ CallSetSpatialPosition(0, 0, 0)

Spec == Init /\ [][Next]_vars

\* The offline renders under every interleaving with each other, with the
\* first init() of the live session and with a setter.
NextRender ==
    \/ context = 0 /\ InitCall(1, 1)
    \/ \E r \in Render, s \in {DefaultSettings, TheaterSettings} : RenderCall(r, s)
    \/ \E r \in Render : RenderBytes(r)
    \/ \E r \in Render, decoded \in {NoBuffer, StereoClip} :
          RenderDecoded(r, decoded)
    \/ \E r \in Render : RenderFinish(r, SilentFrames(2), TRUE)
    \/ CallSetBass(20)

SpecRender == Init /\ [][NextRender]_vars

\* One session, initialised once on a fresh element, and the parameter
\* surface on it: the setters with documented ranges take in-range and
\* out-of-range arguments, the App pushes whole settings.
InitParam ==
    /\ Init
    /\ closeSemantics = "immediate"
    /\ elemBound = [e \in Elem |-> 0]

NextParam ==
    \/ context = 0 /\ InitCall(1, 1)
    \/ \E v \in {20, 1000} : CallSetBass(v)
    \/ \E v \in {20, -500} : CallSetTreble(v)
    \/ \E v \in {8, 20} : CallSetVocalClarity(v)
    \/ CallSetReverb(500)
    \/ CallSetDRC(200)
    \/ CallSetHeightLevel(30)
    \/ \E b \in BOOLEAN : CallSetTheaterMode(b)
    \/ \E name \in AUDIO_PRESETS : CallApplyPreset(name)
    \/ \E bass \in {0, 20}, vc \in {5, 8}, th \in BOOLEAN, name \in AUDIO_PRESETS :
          CallUpdateEngine(PushSettings(bass, vc, th, name), 3, 3)

SpecParam == InitParam /\ [][NextParam]_vars

\* renderOffline calls one after the other, over the target rates and depths
\* the App offers and over decoded sources of one, two and six channels at
\* the two usual hardware rates, of a few frames and of 2^30 frames (6.2 hours
\* at 48 kHz).
SampleRates == {44100, 48000, 96000, 192000}

BitDepths == {16, 24, 32}

RenderSettings(sampleRate, bitDepth) ==
    [DefaultSettings EXCEPT !.sampleRate = sampleRate, !.bitDepth = bitDepth]

DecodedBuffers ==
    {AudioBuffer(n, rate, ch, <<>>) :
        n \in {1, MaxFrames + 1, 2^30}, rate \in {44100, 48000}, ch \in {1, 2, 6}}

\* Frames startRendering may deliver on the two channels of the context.
RenderedFrames ==
    {<<SampleOf(0), SampleOf(0)>>, <<SampleOf(3), SampleOf(-5)>>}

RenderedData == UNION {[1..n -> RenderedFrames] : n \in 0..MaxFrames}

NextWav ==
    \/ \E r \in Render, rate \in SampleRates, depth \in BitDepths :
          /\ \A q \in Render : renderPc[q] = "idle"
          /\ RenderCall(r, RenderSettings(rate, depth))
    \/ \E r \in Render : RenderBytes(r)
    \/ \E r \in Render, decoded \in DecodedBuffers \cup {NoBuffer} :
          RenderDecoded(r, decoded)
    \/ \E r \in Render, data \in RenderedData, allocated \in BOOLEAN :
          RenderFinish(r, data, allocated)

SpecWav == InitParam /\ [][NextWav]_vars

\* audioBufferToWav as a function of its arguments. One sample is drawn from
\* Samples: values inside, on and outside [-1, 1], of both signs, NaN and the
\* infinities; buffers of more frames or channels hold samples of FewSamples
\* or silence.
\* LongLengths are frame counts whose files reach 2^31 and 2^32 bytes; of
\* those buffers the first MaxFrames frames are spelled out.
Samples ==
    {SampleOf(k) : k \in {-16, -8, -5, -1, 0, 1, 3, 8, 12}}
    \cup {NaNSample, [kind |-> "inf", num |-> 0], [kind |-> "ninf", num |-> 0]}

FewSamples == {SampleOf(-5), SampleOf(12)}

LongLengths == {2^29, 2^30}

EncoderBuffers ==
    {AudioBuffer(1, 48000, 1, <<<<x>>>>) : x \in Samples}
    \cup UNION {{AudioBuffer(n, 48000, ch, data) :
                   data \in [1..n -> [1..ch -> FewSamples]]} :
                n \in 1..MaxFrames, ch \in 1..2}
    \cup {AudioBuffer(1, rate, 6, <<[i \in 1..6 |-> SampleOf(0)]>>) :
           rate \in {44100, 192000}}
    \cup {AudioBuffer(n, 192000, 2, SilentFrames(MaxFrames)) : n \in LongLengths}
    \cup {AudioBuffer(0, 48000, ch, <<>>) : ch \in 1..2}

NextEncoder ==
    \E buffer \in EncoderBuffers, bitDepth \in BitDepths, allocated \in BOOLEAN :
        CallAudioBufferToWav(buffer, bitDepth, allocated)

SpecEncoder == InitParam /\ [][NextEncoder]_vars

\* ------------------------------------------------------------ App handlers
engineVars == <<closeSemantics, ctxVars, nodes, initVars, renderVars>>
queueVars == <<mediaData, playbackQueue, isPlaying, played, started>>

\* The lists the vault view can show: the items in any order, any of them
\* filtered out, each id once.
VaultLists ==
    {q \in UNION {[1..n -> Item] : n \in 1..MaxItems} :
        \A j, k \in 1..Len(q) : j # k => q[j] # q[k]}

\* Lines 283-294: the effect on [isReady, sampleRate, bitDepth] calls
\* audioEngine.init(videoRef.current, settings.sampleRate, settings.bitDepth).
initEffect(s) == <<s.sampleRate, s.bitDepth>>

\* Line 558: the start button; the player mounts and the effect runs.
SetIsReady ==
    /\ ~isReady
    /\ isReady' = TRUE
    /\ initArgs' = initEffect(appSettings)
    /\ lastCall' = Call("setIsReady", 1, 0, 0, "", FALSE)
    /\ UNCHANGED <<engineVars, appSettings, queueVars>>

\* Line 751: a bit-depth button, setSettings(p => ({ ...p, bitDepth: bit })),
\* and the effect run that follows a change.
SelectBitDepth(bit) ==
    /\ isReady
    /\ appSettings' = [appSettings EXCEPT !.bitDepth = bit]
    /\ initArgs' = initEffect(appSettings')
    /\ lastCall' = Call("setSettings", bit, 0, 0, "bitDepth", FALSE)
    /\ UNCHANGED <<engineVars, isReady, queueVars>>

\* Line 755: a button of SAMPLE_RATE_MAP[settings.bitDepth],
\* setSettings(p => ({ ...p, sampleRate: freq })), and the effect run.
SelectSampleRate(freq) ==
    /\ isReady
    /\ freq \in Range(SAMPLE_RATE_MAP[appSettings.bitDepth])
    /\ appSettings' = [appSettings EXCEPT !.sampleRate = freq]
    /\ initArgs' = initEffect(appSettings')
    /\ lastCall' = Call("setSettings", freq, 0, 0, "sampleRate", FALSE)
    /\ UNCHANGED <<engineVars, isReady, queueVars>>

\* Line 722: a click on the item at position k of the list shown,
\* playMediaFromVault(item, filteredAndSortedMedia).
ClickVaultItem(queue, k) ==
    LET next == playMediaFromVault(queue[k], queue)
    IN /\ isReady
       /\ k \in 1..Len(queue)
       /\ mediaData' = next.mediaData
       /\ playbackQueue' = next.playbackQueue
       /\ isPlaying' = next.isPlaying
       /\ played' = <<next.mediaData>>
       /\ started' = [queue |-> queue, index |-> k]
       /\ lastCall' = Call("playMediaFromVault", queue[k], k, 0, "", FALSE)
       /\ UNCHANGED <<engineVars, isReady, appSettings, initArgs>>

\* The media element plays to its end: 'pause' (onPause, line 573), then
\* 'ended' (onPlaybackEnded, lines 465-472).
OnPlaybackEnded ==
    /\ isReady /\ mediaData # 0 /\ isPlaying
    /\ IF Len(playbackQueue) > 0
       THEN LET next == playMediaFromVault(playbackQueue[1], playbackQueue)
            IN /\ mediaData' = next.mediaData
               /\ playbackQueue' = next.playbackQueue
               /\ isPlaying' = next.isPlaying
               /\ played' = Append(played, next.mediaData)
       ELSE /\ isPlaying' = FALSE
            /\ UNCHANGED <<mediaData, playbackQueue, played>>
    /\ lastCall' = Call("onPlaybackEnded", Len(playbackQueue), 0, 0, "", FALSE)
    /\ UNCHANGED <<engineVars, isReady, appSettings, initArgs, started>>

\* Lines 572-573: the user pauses or resumes the element.
OnPause ==
    /\ isReady /\ mediaData # 0 /\ isPlaying
    /\ isPlaying' = FALSE
    /\ lastCall' = Call("onPause", 0, 0, 0, "", FALSE)
    /\ UNCHANGED <<engineVars, isReady, appSettings, initArgs,
                   mediaData, playbackQueue, played, started>>

OnPlay ==
    /\ isReady /\ mediaData # 0 /\ ~isPlaying
    /\ isPlaying' = TRUE
    /\ lastCall' = Call("onPlay", 0, 0, 0, "", FALSE)
    /\ UNCHANGED <<engineVars, isReady, appSettings, initArgs,
                   mediaData, playbackQueue, played, started>>

\* Lines 393-399: a single file is opened from the disk.
HandleFileUpload ==
    /\ isReady
    /\ mediaData' = -1
    /\ isPlaying' = FALSE
    /\ playbackQueue' = <<>>
    /\ played' = <<>>
    /\ started' = NoStart
    /\ lastCall' = Call("handleFileUpload", 0, 0, 0, "", FALSE)
    /\ UNCHANGED <<engineVars, isReady, appSettings, initArgs>>

NextApp ==
    \/ SetIsReady
    \/ \E bit \in Range(BIT_DEPTH_OPTIONS) : SelectBitDepth(bit)
    \/ \E freq \in SampleRates : SelectSampleRate(freq)
    \/ \E queue \in VaultLists, k \in 1..MaxItems : ClickVaultItem(queue, k)
    \/ OnPlaybackEnded
    \/ OnPause
    \/ OnPlay
    \/ HandleFileUpload

SpecApp == InitParam /\ [][NextApp]_vars

\* ------------------------------------------------------- shared vocabulary
SetterOps ==
    {"setVolume", "setBass", "setTreble", "setVocalClarity", "setReverb",
     "setDRC", "setHdMode", "setTheaterMode", "applyPreset", "setHeightLevel",
     "setLfeCrossover", "setSpeakerCalibration", "setSpatialPosition"}

\* init() is suspended at `await this.context.close()`.
Rebuilding == \E p \in InitProc : initPc[p] = "awaitClose"

\* A session: a running context with its source bound and the handles on
\* the graph of that context.
SessionActive ==
    /\ context # 0
    /\ ctxState[context] = "running"
    /\ source = context
    /\ nodes.kind = "live"
    /\ nodes.id = context

\* The handles are nodes of a realtime context that is closing or closed.
OnDisposedGraph == nodes.kind = "live" /\ ctxState[nodes.id] # "running"

\* ------------------------------------------------------------------ claims
\* C1: a setter called while init() is suspended in its rebuild window does
\* not throw and does not change a parameter of a node of the old, closing or
\* closed context.
C1_SetterInRebuildWindow ==
    [][(Rebuilding /\ lastCall'.op \in SetterOps)
         => (~lastCall'.threw /\ (OnDisposedGraph => nodes' = nodes))]_vars

\* C2: at most one realtime context created by init() is open, and none is
\* dropped from this.context while open.
C2_OneOpenContext ==
    /\ Cardinality({c \in Ctx : ctxState[c] = "running"}) <= 1
    /\ \A c \in Ctx : ctxState[c] = "running" => context = c

\* C3: an init() whose source could not be bound reports it: its caller can
\* tell the outcome from that of a successful init, by what the promise
\* delivers or by isActive().
C3_BindingConflictReported ==
    (lastCall.op = "init" /\ lastCall.c = 1)
        => (lastCall.name # "resolved" \/ ~isActive(context))

\* C4: a setter called with no active session does not throw and leaves the
\* engine's state as it was.
C4_SetterWithoutSession ==
    [][(~SessionActive /\ lastCall'.op \in SetterOps)
         => (~lastCall'.threw /\ nodes' = nodes /\ UNCHANGED ctxVars)]_vars

\* C5: while a renderOffline call is between building its offline graph and
\* the end of startRendering, and the handles are the nodes of that graph, a
\* second renderOffline call does not replace or change them.
C5_RendersDoNotShareHandles ==
    [][\A r1, r2 \in Render :
         (/\ r1 # r2
          /\ renderPc[r1] = "awaitRender"
          /\ nodes.kind = "offline" /\ nodes.id = r1
          /\ renderPc[r2] # renderPc'[r2])
         => nodes' = nodes]_vars

Clamp(v, lo, hi) == IF v < lo THEN lo ELSE IF v > hi THEN hi ELSE v

\* The gain targets of all the filters of the graph.
Gains(n) == <<n.mid, n.bass, n.treble, n.xCurve, n.height,
              n.hdLow, n.hdMid, n.hdHigh>>

\* C6: a setter with a documented range leaves the targets it would leave
\* when called with its argument clamped to the range: bass and treble
\* [-10, 15] dB, vocalClarity [0, 15], reverbLevel, heightLevel and drc [0, 1].
C6_SettersClamp ==
    [][LET v == lastCall'.a
       IN /\ lastCall'.op = "setBass"
               => nodes' = setBass(nodes, context, Clamp(v, -100, 150))
          /\ lastCall'.op = "setTreble"
               => nodes' = setTreble(nodes, context, Clamp(v, -100, 150))
          /\ lastCall'.op = "setVocalClarity"
               => nodes' = setVocalClarity(nodes, context, Clamp(v, 0, 15))
          /\ lastCall'.op = "setReverb"
               => nodes' = setReverb(nodes, context, Clamp(v, 0, 100))
          /\ lastCall'.op = "setHeightLevel"
               => nodes' = setHeightLevel(nodes, context, Clamp(v, 0, 10))
          /\ lastCall'.op = "setDRC"
               => nodes' = setDRC(nodes, context, Clamp(v, 0, 100))]_vars

\* C7: on an active session setBass(v) right after setTheaterMode(true)
\* leaves the bass shelf at 4 dB + v (6 dB for v = 2 dB).
C7_TheaterBaselinePlusBass ==
    [][(/\ SessionActive
        /\ lastCall.op = "setTheaterMode" /\ lastCall.a = 1
        /\ lastCall'.op = "setBass")
         => nodes'.bass = 40 + lastCall'.a]_vars

\* C8: after a complete push of the settings with theaterMode = true the
\* cinema shelf, bass shelf and vocal filter carry the theater contribution
\* (-1.5 dB, +4 dB, +3 dB) on top of what the same push leaves with
\* theaterMode = false.
C8_PushKeepsTheaterMacro ==
    [][(/\ SessionActive
        /\ lastCall'.op = "updateEngine" /\ lastCall'.c = 1)
         => LET off == updateEngine(nodes, context,
                           [PushSettings(lastCall'.a, lastCall'.b, TRUE,
                                         lastCall'.name)
                               EXCEPT !.isTheaterMode = FALSE], 3, 3)
            IN /\ nodes'.xCurve = off.xCurve - 15
               /\ nodes'.bass = off.bass + 40
               /\ nodes'.mid = off.mid + 30]_vars

\* C9: right after setTheaterMode(false) on an active session the cinema
\* shelf, the bass shelf and the vocal filter are at 0 dB.
C9_TheaterOffIsNeutral ==
    (SessionActive /\ lastCall.op = "setTheaterMode" /\ lastCall.a = 0)
        => (nodes.xCurve = 0 /\ nodes.bass = 0 /\ nodes.mid = 0)

\* Theater mode was switched off on a session whose other targets the user
\* had moved.
C9_Witness ==
    /\ SessionActive
    /\ lastCall.op = "setTheaterMode" /\ lastCall.a = 0
    /\ nodes.xCurve = 0 /\ nodes.bass = 0 /\ nodes.mid = 0
    /\ nodes.treble = 20 /\ nodes.height = 180

\* C10: in the state a call applyPreset(name) on an active session leaves,
\* a second applyPreset(name) changes no filter's gain target.
C10_ApplyPresetIdempotent ==
    (SessionActive /\ lastCall.op = "applyPreset")
        => Gains(applyPreset(nodes, context, lastCall.name)) = Gains(nodes)

\* A preset with offsets of its own was applied on a session whose targets
\* had been moved.
C10_Witness ==
    /\ SessionActive
    /\ lastCall.op = "applyPreset" /\ lastCall.name = "IMAX Enhanced"
    /\ nodes.bass = 80 /\ nodes.mid = 30 /\ nodes.treble = 20
    /\ nodes.xCurve = -15 /\ nodes.height = 180

\* The targets a preset is about: the bass, treble, vocal and cinema shelf
\* gains and the impulse response of the reverb.
PresetTargets(n) == <<n.bass, n.treble, n.mid, n.xCurve, n.ir>>

\* C11: applyPreset(B) on the state applyPreset(A) left on a freshly
\* initialised session leaves the preset targets applyPreset(B) alone leaves
\* on a freshly initialised session.
C11_PresetSwitchNoDrift ==
    [][LET fresh == setupGraph("live", context)
       IN (/\ SessionActive
           /\ lastCall.op = "applyPreset"
           /\ nodes = applyPreset(fresh, context, lastCall.name)
           /\ lastCall'.op = "applyPreset")
            => PresetTargets(nodes')
                 = PresetTargets(applyPreset(fresh, context, lastCall'.name))]_vars

\* ---------------------------------------------------------------- topology
\* The nodes reachable from the set S along the edges E, never entering a
\* node of the set avoid.
RECURSIVE ReachAvoiding(_, _, _)
ReachAvoiding(E, S, avoid) ==
    LET step == S \cup {e[2] : e \in {d \in E : d[1] \in S /\ d[2] \notin avoid}}
    IN IF step = S THEN S ELSE ReachAvoiding(E, step, avoid)

\* A realtime graph's edges with the analyser taken out of the path from the
\* limiter to the destination.
WithoutAnalyser(E) ==
    (E \ {<<"compressor", "analyser">>, <<"analyser", "destination">>})
    \cup {<<"compressor", "destination">>}

\* C12: when the handles pass from a realtime graph to an offline graph or
\* back, the two graphs have the same static node configuration and the same
\* connections, but for the analyser between limiter and destination, which
\* the realtime graph alone has.
C12_TopologyParity ==
    [][(nodes.kind # "null" /\ nodes'.kind # "null" /\ nodes.kind # nodes'.kind)
         => LET live == IF nodes.kind = "live" THEN nodes ELSE nodes'
                off == IF nodes.kind = "live" THEN nodes' ELSE nodes
            IN /\ off.config = live.config
               /\ off.fftSize = live.fftSize
               /\ <<"compressor", "analyser">> \in live.edges
               /\ <<"analyser", "destination">> \in live.edges
               /\ off.edges = WithoutAnalyser(live.edges)]_vars

\* renderOffline has built its graph over the handles of a live session.
C12_Witness ==
    /\ context # 0 /\ source = context
    /\ nodes.kind = "offline"
    /\ lastCall.op = "renderOffline" /\ lastCall.b = 2 /\ ~lastCall.threw
    /\ <<"compressor", "destination">> \in nodes.edges
    /\ "analyser" \notin ReachAvoiding(nodes.edges, {"source"}, {})

\* The node parameters renderOffline and the setters write.
Params(n) ==
    <<n.bass, n.treble, n.mid, n.height, n.xCurve, n.hdLow, n.hdMid, n.hdHigh,
      n.wet, n.volume, n.threshold, n.lfeFreq, n.delay, n.ir>>

\* C13: the values renderOffline writes to the nodes of its graph are the
\* targets a push of the same settings through updateEngine leaves on a
\* freshly initialised live session.
C13_OfflineMatchesLive ==
    [][\A r \in Render :
         (renderPc[r] = "awaitDecode" /\ renderPc'[r] = "awaitRender")
         => Params(nodes')
              = Params(updateEngine(setupGraph("live", 1), 1, renderArg[r], 3, 3))]_vars

\* The chain of C14 over the engine's handles: vocal presence = midFilter,
\* cinema roll-off = xCurveFilter, LFE = lfeCrossover, calibration delay =
\* delayNode, spatializer = panner, master gain = gainNode, limiter =
\* compressor; the engine has no handle for a crossfeed stage.
CanonicalChain ==
    {<<"source", "midFilter">>, <<"midFilter", "bassFilter">>,
     <<"bassFilter", "trebleFilter">>, <<"trebleFilter", "xCurveFilter">>,
     <<"xCurveFilter", "heightFilter">>, <<"heightFilter", "lfeCrossover">>,
     <<"lfeCrossover", "dryGain">>, <<"lfeCrossover", "reverbNode">>,
     <<"reverbNode", "wetGain">>,
     <<"dryGain", "delayNode">>, <<"wetGain", "delayNode">>,
     <<"delayNode", "panner">>, <<"panner", "crossfeed">>,
     <<"crossfeed", "gainNode">>, <<"gainNode", "compressor">>,
     <<"compressor", "analyser">>, <<"analyser", "destination">>}

\* C14: the graph a successful init() has built is the canonical chain, with
\* no other node on a path from the source to the destination.
C14_CanonicalChain ==
    (/\ lastCall.op = "init" /\ lastCall.name = "resolved" /\ lastCall.c = 0
     /\ nodes.kind = "live")
        => nodes.edges = CanonicalChain

\* Every path from the source to the destination enters the master gain, and
\* every path from the master gain to the destination enters the limiter.
LimitedAfterGain(E) ==
    /\ "destination" \in ReachAvoiding(E, {"source"}, {})
    /\ "destination" \notin ReachAvoiding(E, {"source"}, {"gainNode"})
    /\ "destination" \notin ReachAvoiding(E, {"gainNode"}, {"compressor"})
    /\ "gainNode" \notin ReachAvoiding(E, {"compressor"}, {})

\* C15: in the graph the handles are on, realtime or offline, no signal
\* reaches the destination without passing the master gain and then the
\* limiter.
C15_LimiterAfterGain ==
    nodes.kind # "null" => LimitedAfterGain(nodes.edges)

\* An offline graph carrying a volume above unity, built after a live one.
C15_Witness ==
    /\ nodes.kind = "offline" /\ nodes.volume = 180
    /\ context # 0
    /\ <<"gainNode", "compressor">> \in nodes.edges
    /\ LimitedAfterGain(nodes.edges)

\* C16: a renderOffline call whose blob cannot be decoded rejects its promise
\* and returns no Blob, and none of its steps, from the call to the failed
\* decode, changes the node handles or the live session.
C16_DecodeFailureRejects ==
    [][\A r \in Render :
         /\ (renderPc[r] = "awaitDecode" /\ renderPc'[r] = "idle")
              => (lastCall'.name = "rejected" /\ lastCall'.threw /\ wav' = wav)
         /\ (/\ renderPc'[r] # renderPc[r]
             /\ renderPc'[r] \in {"awaitBytes", "awaitDecode", "idle"}
             /\ renderPc[r] # "awaitRender")
              => (nodes' = nodes /\ UNCHANGED ctxVars)]_vars

\* The decode of a render failed while a live session with a moved bass target
\* was active.
C16_Witness ==
    /\ lastCall.op = "renderOffline" /\ lastCall.b = 2
    /\ lastCall.name = "rejected"
    /\ SessionActive /\ nodes.bass = 20
    /\ wav = NoWav

\* frames * rate, the rate in units of 100 Hz.
FrameRateProduct(frames, rate) == NumTimes(Num(frames), rate \div 100)

\* C17: the output of a completed renderOffline lasts as long as the decoded
\* source: outputFrames * decodeRate = decodedFrames * targetRate, up to the
\* rounding of one output frame.
C17_DurationPreserved ==
    [][\A r \in Render :
         (renderPc[r] = "awaitRender" /\ renderPc'[r] = "idle")
         => LET outputFrames == offlineContext(renderBuf[r], renderArg[r]).length
                a == FrameRateProduct(outputFrames, renderBuf[r].sampleRate)
                b == FrameRateProduct(renderBuf[r].length,
                                      renderArg[r].sampleRate)
                frame == renderBuf[r].sampleRate \div 100
            IN NumLess(a, NumPlus(b, frame)) /\ NumLess(b, NumPlus(a, frame))]_vars

\* A renderOffline call completes with a Blob.
RenderCompletes(r) ==
    renderPc[r] = "awaitRender" /\ renderPc'[r] = "idle" /\ ~lastCall'.threw

Encoded == wav # NoWav

\* C19: the header of every encoded buffer is consistent: RIFF size = total
\* length - 8, fmt chunk length 16, format tag 1, blockAlign = channels *
\* depth/8, byteRate = sampleRate * blockAlign, bitsPerSample = depth, data
\* length = frames * channels * depth/8, total length = 44 + data length.
C19_HeaderConsistent ==
    Encoded =>
        LET buffer == wavInput.buffer
            bitDepth == wavInput.bitDepth
        IN /\ wav.riffSize = NumPlus(wav.byteLength, -8)
           /\ wav.fmtLength = Num(16)
           /\ wav.format = 1
           /\ wav.numChannels = buffer.numberOfChannels
           /\ wav.sampleRate = Num(buffer.sampleRate)
           /\ wav.blockAlign = wav.numChannels * (bitDepth \div 8)
           /\ wav.byteRate = NumTimes(wav.sampleRate, wav.blockAlign)
           /\ wav.bitsPerSample = bitDepth
           /\ wav.dataLength
                = NumTimes(Num(buffer.length),
                           buffer.numberOfChannels * (bitDepth \div 8))
           /\ wav.byteLength = NumPlus(wav.dataLength, 44)

\* The two bytes written for the sample of channel i (from 1) of frame offset
\* (from 1) of a 16-bit file, read back as a little-endian signed integer.
ReadInt16(offset, i) ==
    LET pos == ((offset - 1) * wavInput.buffer.numberOfChannels + (i - 1)) * 2
        lo == wav.data[pos + 1]
        hi == wav.data[pos + 2]
    IN IF hi >= 128 THEN lo + 256 * hi - 65536 ELSE lo + 256 * hi

\* C20: in a 16-bit file every sample is written as two bytes, a little-endian
\* signed integer v in [-32768, 32767]; for a sample s that is a number, with
\* c = s clamped to [-1, 1], v is c * 0x8000 (c < 0) or c * 0x7FFF (c >= 0)
\* with the fraction dropped towards zero, less than 1 LSB from that product.
\* (The products are taken times 8, samples being eighths.)
C20_Int16Encoding ==
    (Encoded /\ wavInput.bitDepth = 16) =>
        LET buffer == wavInput.buffer
        IN /\ Len(wav.data) = Len(buffer.data) * buffer.numberOfChannels * 2
           /\ \A offset \in 1..Len(buffer.data), i \in 1..buffer.numberOfChannels :
                LET s == buffer.data[offset][i]
                    v == ReadInt16(offset, i)
                    c == CASE s.kind = "inf" -> 8
                           [] s.kind = "ninf" -> -8
                           [] OTHER -> Clamp(s.num, -8, 8)
                    ideal == IF c < 0 THEN c * 32768 ELSE c * 32767
                IN /\ v \in -32768..32767
                   /\ s.kind # "nan" =>
                        /\ ideal >= 0 => (v * 8 <= ideal /\ ideal < v * 8 + 8)
                        /\ ideal < 0 => (v * 8 - 8 < ideal /\ ideal <= v * 8)

\* The sample 3/8 was written at 16 bit: 12287.625 became 12287 = 0x2FFF.
C20_Witness ==
    /\ Encoded /\ wavInput.bitDepth = 16
    /\ wavInput.buffer.data = <<<<SampleOf(3)>>>>
    /\ wav.data = <<255, 47>>

\* The three bytes written for the sample of channel i of frame offset of a
\* 24-bit file, read back as a little-endian two's-complement integer.
ReadInt24(offset, i) ==
    LET pos == ((offset - 1) * wavInput.buffer.numberOfChannels + (i - 1)) * 3
        u == wav.data[pos + 1] + 256 * wav.data[pos + 2] + 65536 * wav.data[pos + 3]
    IN IF u >= 8388608 THEN u - 16777216 ELSE u

\* C21: in a 24-bit file every sample is written as exactly three bytes, each
\* in 0..255, which read back least significant first as a two's-complement
\* integer give v in [-8388608, 8388607]; for a sample that is a number, with
\* c = s clamped to [-1, 1], v is c * 0x800000 (c < 0) or c * 0x7FFFFF
\* (c >= 0) with the fraction dropped towards zero.
C21_Int24Encoding ==
    (Encoded /\ wavInput.bitDepth = 24) =>
        LET buffer == wavInput.buffer
        IN /\ Len(wav.data) = Len(buffer.data) * buffer.numberOfChannels * 3
           /\ \A k \in 1..Len(wav.data) : wav.data[k] \in 0..255
           /\ \A offset \in 1..Len(buffer.data), i \in 1..buffer.numberOfChannels :
                LET s == buffer.data[offset][i]
                    v == ReadInt24(offset, i)
                    c == CASE s.kind = "inf" -> 8
                           [] s.kind = "ninf" -> -8
                           [] OTHER -> Clamp(s.num, -8, 8)
                    ideal == IF c < 0 THEN c * 8388608 ELSE c * 8388607
                IN /\ v \in -8388608..8388607
                   /\ s.kind # "nan" =>
                        /\ ideal >= 0 => (v * 8 <= ideal /\ ideal < v * 8 + 8)
                        /\ ideal < 0 => (v * 8 - 8 < ideal /\ ideal <= v * 8)

\* The negative sample -5/8 was written at 24 bit: -5242880 = 0xB00000.
C21_Witness ==
    /\ Encoded /\ wavInput.bitDepth = 24
    /\ wavInput.buffer.data = <<<<SampleOf(-5)>>>>
    /\ wav.data = <<0, 0, 176>>

\* The four bytes written for the sample of channel i of frame offset of a
\* 32-bit file, read back as a little-endian IEEE-754 binary32 value, for the
\* values the model's samples can take (multiples of 1/8, infinities, NaN).
ReadFloat32(offset, i) ==
    LET pos == ((offset - 1) * wavInput.buffer.numberOfChannels + (i - 1)) * 4
        b0 == wav.data[pos + 1]
        b1 == wav.data[pos + 2]
        b2 == wav.data[pos + 3]
        b3 == wav.data[pos + 4]
        sign == b3 \div 128
        biased == (b3 % 128) * 2 + b2 \div 128
        mant == (b2 % 128) * 65536 + b1 * 256 + b0
        p == biased - 124
        k == (8388608 + mant) \div 2^(23 - p)
    IN IF biased = 255
         THEN IF mant # 0 THEN NaNSample
              ELSE [kind |-> IF sign = 1 THEN "ninf" ELSE "inf", num |-> 0]
       ELSE IF biased = 0 /\ mant = 0 THEN SampleOf(0)
       ELSE SampleOf(IF sign = 1 THEN -k ELSE k)

\* C22: in a 32-bit file every sample is written as four bytes which, read
\* back as a little-endian float32, give the sample of the buffer that was
\* encoded, whatever its magnitude.
C22_Float32PassThrough ==
    (Encoded /\ wavInput.bitDepth = 32) =>
        LET buffer == wavInput.buffer
        IN /\ Len(wav.data) = Len(buffer.data) * buffer.numberOfChannels * 4
           /\ \A offset \in 1..Len(buffer.data), i \in 1..buffer.numberOfChannels :
                ReadFloat32(offset, i) = buffer.data[offset][i]

\* C23: in every state of the engine getAnalyserData() returns an array of
\* half the configured FFT size (2048 / 2 elements) with elements in 0..255.
C23_AnalyserDataLength ==
    /\ getAnalyserData(nodes).length = 1024
    /\ getAnalyserData(nodes).elements \subseteq 0..255

\* C24: after an init() that bound its source, and until the next call, the
\* handles are the nodes of the context that init created, every filter gain
\* is 0 dB, the wet gain is 0 and every other parameter has the value
\* setupGraph gives it: volume 1.0, limiter threshold -0.5 dB, LFE corner
\* 80 Hz, no delay, the 1.2 s impulse response, listener at the origin.
C24_InitBuildsNeutralGraph ==
    (lastCall.op = "init" /\ lastCall.name = "resolved" /\ lastCall.c = 0) =>
        /\ nodes.kind = "live"
        /\ nodes.id = lastCall.b
        /\ nodes.id = context
        /\ Gains(nodes) = <<0, 0, 0, 0, 0, 0, 0, 0>>
        /\ nodes.wet = 0
        /\ <<nodes.volume, nodes.threshold, nodes.lfeFreq, nodes.delay,
             nodes.ir, nodes.dry>> = <<100, -50, 80, 0, <<12, 30>>, 120>>
        /\ <<nodes.posX, nodes.posY, nodes.posZ>> = <<0, 0, 0>>

\* A rebuild has completed: the second context or a later one carries a
\* freshly built graph and a bound source.
C24_Witness ==
    /\ lastCall.op = "init" /\ lastCall.name = "resolved" /\ lastCall.c = 0
    /\ context > 1
    /\ ctxState[1] = "closed"
    /\ source = context
    /\ nodes.id = context

\* ---------------------------------------------------------------- crossfeed
\* The connect() calls of the crossfeed stage of the headphone engine, as
\* <<node, output, node, input>>: splitter output 0 carries the left channel and
\* output 1 the right, merger input 0 is the left output and input 1 the right.
\* The two delays feed the same crossFilter and the one crossGain feeds both
\* inputs of the merger.
crossfeedConnections ==
    {<<"panner", 0, "splitter", 0>>,
     <<"splitter", 0, "merger", 0>>,
     <<"splitter", 1, "merger", 1>>,
     <<"splitter", 0, "crossDelayL", 0>>,
     <<"crossDelayL", 0, "crossFilter", 0>>,
     <<"crossFilter", 0, "crossGain", 0>>,
     <<"crossGain", 0, "merger", 1>>,
     <<"splitter", 1, "crossDelayR", 0>>,
     <<"crossDelayR", 0, "crossFilter", 0>>,
     <<"crossGain", 0, "merger", 0>>}

\* The parameters of the cross path: delays in microseconds, low-pass corner
\* in Hz, gain in hundredths.
crossfeedConfig ==
    [crossDelayL |-> 300, crossDelayR |-> 300,
     crossFilter |-> [type |-> "lowpass", frequency |-> 2200],
     crossGain |-> 25]

\* <<input channel, output channel>> of the connections that go from the
\* splitter to the merger with no node between.
DirectPaths(E) ==
    {<<e[2], e[4]>> : e \in {d \in E : d[1] = "splitter" /\ d[3] = "merger"}}

\* <<input channel, output channel>> of the paths that go from the splitter to
\* the merger through at least one other node, and the nodes on them.
CrossNodes(E, ch) ==
    ReachAvoiding({<<e[1], e[3]>> : e \in {d \in E : d[1] # "splitter"}},
                  {e[3] : e \in {d \in E : d[1] = "splitter" /\ d[2] = ch
                                            /\ d[3] # "merger"}},
                  {"merger"})

CrossPaths(E) ==
    {p \in {0, 1} \X {0, 1} :
        \E e \in E : e[3] = "merger" /\ e[4] = p[2] /\ e[1] \in CrossNodes(E, p[1])}

\* C25: once init() has built a graph, the direct paths of the crossfeed
\* stage are left to left and right to right and no other, and the cross
\* paths, each through a delay, the low-pass filter and the attenuating gain,
\* are left to right and right to left and no other.
C25_CrossfeedRouting ==
    isActive(context) =>
    LET E == crossfeedConnections
    IN /\ DirectPaths(E) = {<<0, 0>>, <<1, 1>>}
       /\ \A ch \in {0, 1} :
            {"crossFilter", "crossGain"} \subseteq CrossNodes(E, ch)
       /\ crossfeedConfig.crossGain < 100
       /\ CrossPaths(E) = {<<0, 1>>, <<1, 0>>}

\* C26: with a live session initialised and no renderOffline in flight
\* (none called, or every one completed or failed), a setter call acts on the
\* nodes of the live session's graph: the handles it writes through are those
\* init built on the engine's context.
C26_SetterAfterRenderOnLiveGraph ==
    [][(/\ context # 0 /\ source = context
        /\ \A r \in Render : renderPc[r] = "idle"
        /\ lastCall'.op \in SetterOps)
       => (/\ nodes.kind = "live" /\ nodes.id = context
           /\ nodes'.kind = "live" /\ nodes'.id = context)]_vars

\* C27: whenever isActive() is true and no init() is in flight, the engine
\* holds a complete graph on its current context: the source is bound and
\* every node handle is a node that init created on this.context.
C27_ActiveMeansCompleteGraph ==
    (isActive(context) /\ \A p \in InitProc : initPc[p] = "idle") =>
        /\ source # 0
        /\ source = context
        /\ nodes.kind = "live"
        /\ nodes.id = context

\* x <= y for sizes.
NumLeq(x, y) == ~NumLess(y, x)

\* C28: for every depth and every buffer, the sample loop of the encoder reads
\* no frame index >= frames and writes no byte at or beyond the allocated
\* length; over a buffer whose frames are all followed it terminates after
\* exactly frames iterations with the write position equal to the allocated
\* length 44 + frames * channels * depth / 8.
C28_SampleLoopExact ==
    Encoded =>
        LET buffer == wavInput.buffer
            bytes == wavInput.bitDepth \div 8
            allocated == NumPlus(NumTimes(Num(buffer.length),
                                          buffer.numberOfChannels * bytes), 44)
        IN /\ wav.byteLength = allocated
           /\ ~wav.loop.overrun
           /\ wav.loop.offset <= buffer.length
           /\ NumLeq(wav.loop.writeEnd, allocated)
           /\ NumLeq(wav.loop.pos, allocated)
           /\ Len(buffer.data) = buffer.length =>
                /\ wav.loop.exited
                /\ wav.loop.pos = allocated
                /\ wav.loop.writeEnd = allocated
                /\ wav.loop.offset = buffer.length
                /\ Len(wav.data) = buffer.length * buffer.numberOfChannels * bytes

\* A 24-bit file of two stereo frames was encoded: the loop ran twice and
\* stopped at 44 + 2 * 2 * 3 = 56.
C28_Witness ==
    /\ Encoded /\ wavInput.bitDepth = 24
    /\ wavInput.buffer.length = 2 /\ wavInput.buffer.numberOfChannels = 2
    /\ wav.loop = LoopState(Num(56), 2, Num(56), TRUE, FALSE)

\* C29: with the list q and the position i of the last click on a vault item,
\* the items loaded since are q[i], q[i+1], ... in order, each once; the
\* item loaded is the last of them and the pending queue is exactly the items
\* of q after it; and when the element has ended with nothing pending, every
\* item of q from i on has been loaded, the queue is empty and isPlaying is
\* false.
C29_QueuePlaysInOrder ==
    started.index > 0 =>
        LET q == started.queue
            i == started.index
            n == Len(played)
        IN /\ n >= 1 /\ i + n - 1 <= Len(q)
           /\ played = SubSeq(q, i, i + n - 1)
           /\ mediaData = played[n]
           /\ playbackQueue = SubSeq(q, i + n, Len(q))
           /\ (lastCall.op = "onPlaybackEnded" /\ lastCall.a > 0)
                => (isPlaying /\ Len(playbackQueue) = lastCall.a - 1)
           /\ (lastCall.op = "onPlaybackEnded" /\ lastCall.a = 0)
                => (/\ ~isPlaying
                    /\ playbackQueue = <<>>
                    /\ played = SubSeq(q, i, Len(q)))

\* A list of three items was started at its first item, the three were loaded
\* in order and the last one has ended.
C29_Witness ==
    /\ started = [queue |-> <<2, 3, 1>>, index |-> 1]
    /\ played = <<2, 3, 1>>
    /\ lastCall.op = "onPlaybackEnded" /\ lastCall.a = 0
    /\ ~isPlaying /\ playbackQueue = <<>>

\* C30: the pair in settings, and the pair the App has passed to
\* audioEngine.init, is a combination of SAMPLE_RATE_MAP: the sample rate is
\* one of the rates listed for the bit depth.
C30_LegalClock ==
    /\ appSettings.sampleRate \in Range(SAMPLE_RATE_MAP[appSettings.bitDepth])
    /\ initArgs # <<0, 0>> => initArgs[1] \in Range(SAMPLE_RATE_MAP[initArgs[2]])

====
